---- MODULE Spec2Model ----
(***************************************************************************)
(* Model of the OtpGenerator React component                               *)
(* (src/src/components/OtpGenerator.tsx).                                  *)
(*                                                                         *)
(* The component's state is its useState cells, the two localStorage       *)
(* records it reads and writes, and the interval timer installed by the     *)
(* countdown effect together with the render closure that timer captured.  *)
(* Every action is one event handler (or the interval callback) followed   *)
(* by the re-render and the effects that re-render runs.                   *)
(* Time is in milliseconds, measured from the moment the page is opened.   *)
(***************************************************************************)
EXTENDS Integers, Sequences, FiniteSets, TLC

VARIABLES
    clock,          \* the wall clock read by new Date() / Date.now()
    mounted,        \* FALSE until the mount effects have run
    otp,            \* useState<string>('')            (a sequence of characters)
    codeLength,     \* useState<CodeLength>(6)
    codeType,       \* useState<CodeType>('numeric')
    generatedAt,    \* useState<Date | null>(null)
    history,        \* useState<HistoryItem[]>([])
    settings,       \* useState<Settings>({...})
    timeLeft,       \* useState<number>(0)
    isAutoRunning,  \* useState<boolean>(false)
    batchCodes,     \* useState<string[]>([])
    lsSettings,     \* localStorage['otp-settings']
    lsHistory,      \* localStorage['otp-history']
    timer,          \* the interval of the countdown effect, with its closure
    intervals,      \* the intervals the browser is running
    clipboard,      \* the text on the system clipboard
    last,           \* the handler or callback that ran last
    ticked,         \* what the last callback run for the current code computed
    budget          \* user operations and clock advances still allowed

vars == <<clock, mounted, otp, codeLength, codeType, generatedAt, history,
          settings, timeLeft, isAutoRunning, batchCodes, lsSettings, lsHistory,
          timer, intervals, clipboard, last, ticked, budget>>

----------------------------------------------------------------------------
(* Bounds of the model *)

MaxOps == 3             \* things the user does in one run
MaxAdvances == 2        \* times the clock is seen to have moved on
MaxExpiryInput == 1     \* largest number typed into the expiry field
MaxBatchInput == 2      \* largest number typed into the batch-count field
MaxSeed == 1            \* positions of the random stream a generation may start at
MaxStoredHistory == 19  \* entries of the history record found at startup

----------------------------------------------------------------------------
(* Program constants *)

\* null (a Date | null cell, a missing localStorage key) is the empty
\* sequence; a value that is present is the one-element sequence holding it
Null == << >>
Some(x) == <<x>>
Get(cell) == cell[1]
EmptyString == << >>
\* the text of a number field: empty (parseInt gives NaN) or a whole number
EmptyText == [text |-> "empty"]
NumberText(n) == [text |-> "number", n |-> n]

MsPerMinute == 60000            \* 60 * 1000
IntervalMs == 1000              \* setInterval(..., 1000)
HistoryCap == 20                \* .slice(0, 20)
DefaultExpiryMinutes == 5
DefaultBatchCount == 1
DefaultCodeLength == 6
ExpiryFallback == 5             \* parseInt(...) || 5
BatchFallback == 1              \* parseInt(...) || 1

CodeLengths == {4, 6, 8}
CodeTypes == {"numeric", "alphanumeric"}

numericChars == <<"0","1","2","3","4","5","6","7","8","9">>
alphanumericChars ==
    <<"0","1","2","3","4","5","6","7","8","9",
      "A","B","C","D","E","F","G","H","I","J","K","L","M",
      "N","O","P","Q","R","S","T","U","V","W","X","Y","Z">>

DefaultSettings ==
    [expiryMinutes |-> DefaultExpiryMinutes, autoRefresh |-> FALSE,
     soundEnabled |-> TRUE, batchCount |-> DefaultBatchCount]

(* Records found in localStorage when the page is opened: nothing, or what *)
(* an earlier session of the component (or the embedding page) left there. *)
StoredSettingsSamples ==
    { [expiryMinutes |-> 0, autoRefresh |-> FALSE,
       soundEnabled |-> TRUE, batchCount |-> 1],
      [expiryMinutes |-> 1, autoRefresh |-> TRUE,
       soundEnabled |-> FALSE, batchCount |-> 2],
      [expiryMinutes |-> 1, autoRefresh |-> FALSE,
       soundEnabled |-> TRUE, batchCount |-> 10] }

ClockSteps == {MsPerMinute, 5 * MsPerMinute}
Seeds == 0..MaxSeed
ExpiryInputs == {NumberText(n) : n \in -1..MaxExpiryInput} \cup {EmptyText}
BatchInputs == {NumberText(n) : n \in -1..MaxBatchInput} \cup {EmptyText}

----------------------------------------------------------------------------
(* Pure helpers *)

Max(a, b) == IF a >= b THEN a ELSE b
Min(a, b) == IF a <= b THEN a ELSE b

\* Array.prototype.slice(0, n)
Slice(s, n) == SubSeq(s, 1, Min(Len(s), n))

\* parseInt(e.target.value) || fallback: NaN and 0 are falsy
ParseIntOr(value, fallback) ==
    IF value.text = "empty" THEN fallback
    ELSE IF value.n = 0 THEN fallback ELSE value.n

\* Math.random(): the values a run may draw, as numerators over
\* RandomResolution, in the order successive calls return them; a generation
\* starts anywhere in the first MaxSeed + 1 positions.
RandomResolution == 64
RandomStream == <<0, 63, 17, 40, 5, 33, 58, 21, 12, 49, 27>>
MathRandom(call) == RandomStream[(call % Len(RandomStream)) + 1]

\* chars.charAt(Math.floor(Math.random() * chars.length))
RandomChar(chars, call) ==
    chars[((MathRandom(call) * Len(chars)) \div RandomResolution) + 1]

\* faulty variant of generateSingleOtp: the loop runs once too often
generateSingleOtpOneMore(type, length, firstCall) ==
    LET chars == IF type = "numeric" THEN numericChars ELSE alphanumericChars
    IN  [i \in 1..(length + 1) |-> RandomChar(chars, firstCall + i - 1)]

\* generateSingleOtp, its Math.random() calls numbered from firstCall
generateSingleOtp(type, length, firstCall) ==
    LET chars == IF type = "numeric" THEN numericChars ELSE alphanumericChars
    IN  [i \in 1..length |-> RandomChar(chars, firstCall + i - 1)]

\* Array.from({ length: n }, ...) has no element when n is negative
ArrayLength(n) == Max(n, 0)

\* faulty variant of ExpiresAt: the minutes added as if they were milliseconds
ExpiresAtUnconverted(now, expiryMinutes) == now + expiryMinutes

\* new Date(now.getTime() + settings.expiryMinutes * 60 * 1000)
ExpiresAt(now, expiryMinutes) == now + expiryMinutes * 60 * 1000

\* the HistoryItem objects generateOtp builds, in the order it prepends them
NewHistoryItems(now, expiryMinutes, batchCount, length, type, seed) ==
    LET expiresAt == ExpiresAt(now, expiryMinutes)
    IN  IF batchCount = 1
        THEN << [id |-> ToString(now),
                 code |-> generateSingleOtp(type, length, seed),
                 generatedAt |-> now, expiresAt |-> expiresAt,
                 length |-> length, type |-> type] >>
        ELSE [index \in 1..ArrayLength(batchCount) |->
                [id |-> ToString(now) \o "-" \o ToString(index - 1),
                 code |-> generateSingleOtp(type, length,
                                            seed + (index - 1) * length),
                 generatedAt |-> now, expiresAt |-> expiresAt,
                 length |-> length, type |-> type]]

\* faulty variant of PrependAndCap: the slice forgotten
PrependUncapped(items, hist) == items \o hist

\* [...items, ...history].slice(0, 20)
PrependAndCap(items, hist) == Slice(items \o hist, HistoryCap)

----------------------------------------------------------------------------
(* JSON text of the two persisted records *)

\* Date.prototype.toJSON: an ISO string, seconds and milliseconds apart
DateToJSON(ms) == [iso |-> <<ms \div 1000, ms % 1000>>]
\* new Date(isoString)
NewDate(json) == json.iso[1] * 1000 + json.iso[2]

JsonStringifySettings(s) ==
    << <<"expiryMinutes", s.expiryMinutes>>, <<"autoRefresh", s.autoRefresh>>,
       <<"soundEnabled", s.soundEnabled>>, <<"batchCount", s.batchCount>> >>

JsonField(json, key) ==
    CHOOSE i \in 1..Len(json) : json[i][1] = key

JsonParseSettings(json) ==
    [expiryMinutes |-> json[JsonField(json, "expiryMinutes")][2],
     autoRefresh |-> json[JsonField(json, "autoRefresh")][2],
     soundEnabled |-> json[JsonField(json, "soundEnabled")][2],
     batchCount |-> json[JsonField(json, "batchCount")][2]]

\* faulty variant of JsonStringifyHistory: the newest entry is left out
JsonStringifyOlderHistory(hist) ==
    [i \in 1..(Len(hist) - 1) |->
        [hist[i + 1] EXCEPT !.generatedAt = DateToJSON(@),
                            !.expiresAt = DateToJSON(@)]]

JsonStringifyHistory(hist) ==
    [i \in 1..Len(hist) |->
        [hist[i] EXCEPT !.generatedAt = DateToJSON(@),
                        !.expiresAt = DateToJSON(@)]]

\* JSON.parse(savedHistory).map(item => ({...item, generatedAt: new Date(..),
\*                                        expiresAt: new Date(..)}))
ParseSavedHistory(json) ==
    [i \in 1..Len(json) |->
        [json[i] EXCEPT !.generatedAt = NewDate(@),
                        !.expiresAt = NewDate(@)]]

\* the history an earlier session left behind: n single numeric codes, one
\* a minute, the newest a minute before the page is opened
StoredHistory(n) ==
    [k \in 1..n |->
        [id |-> ToString(0 - k * MsPerMinute),
         code |-> generateSingleOtp("numeric", DefaultCodeLength, k),
         generatedAt |-> 0 - k * MsPerMinute,
         expiresAt |-> (0 - k * MsPerMinute) + DefaultExpiryMinutes * MsPerMinute,
         length |-> DefaultCodeLength, type |-> "numeric"]]

\* what localStorage holds when the page is opened
StoredAtStartup ==
    LET full == Some(JsonStringifyHistory(StoredHistory(MaxStoredHistory)))
    IN  {<<Null, Null>>, <<Null, full>>}
        \cup {<<Some(JsonStringifySettings(s)),
                 IF s.batchCount > 2 THEN full ELSE Null>> :
                  s \in StoredSettingsSamples}

----------------------------------------------------------------------------
(* The countdown effect and its interval *)

NoTimer ==
    [live |-> FALSE, expiryTime |-> 0, due |-> 0,
     closure |-> [history |-> << >>, codeLength |-> DefaultCodeLength,
                  codeType |-> "numeric", batchCount |-> DefaultBatchCount]]

\* the body of the countdown effect, run after a render whose state is
\* (gen, set, hist, len, type): it installs an interval whose callback sees
\* generateOtp as that render built it
CountdownEffect(gen, set, hist, len, type) ==
    IF gen # Null /\ set.expiryMinutes > 0
    THEN [live |-> TRUE,
          expiryTime |-> Get(gen) + set.expiryMinutes * 60 * 1000,
          due |-> clock + IntervalMs,
          closure |-> [history |-> hist, codeLength |-> len,
                       codeType |-> type, batchCount |-> set.batchCount]]
    ELSE NoTimer

\* the effect's dependency list, compared with the previous render's
\* (generatedAt is compared by identity; this is for handlers that keep it)
DepsChanged(set, auto) ==
    \/ set.expiryMinutes # settings.expiryMinutes
    \/ set.autoRefresh # settings.autoRefresh
    \/ auto # isAutoRunning

\* setInterval and clearInterval on the set of running intervals (the
\* effect installs none when its condition fails)
SetInterval(t, running) == IF t.live THEN running \cup {t} ELSE running
ClearInterval(t, running) == running \ {t}

\* faulty variant of EffectCleanup: the effect returns no cleanup
EffectCleanupForgotten(t, running) == running

\* return () => clearInterval(timer): run before the effect runs again and
\* when the component goes away, for the interval the effect had installed
EffectCleanup(t, running) == ClearInterval(t, running)

\* the running intervals once the countdown effect has run again and
\* installed new
IntervalsAfterEffect(new, running) ==
    SetInterval(new, EffectCleanup(timer, running))

\* const remaining = Math.max(0, expiryTime.getTime() - now.getTime())
Remaining(expiryTime, now) == Max(0, expiryTime - now)

\* const isExpired = timeLeft === 0 && generatedAt
isExpired == timeLeft = 0 /\ generatedAt # Null

\* the "Expires in" row renders
TimerRowShown ==
    /\ (otp # EmptyString \/ Len(batchCodes) > 0)
    /\ generatedAt # Null
    /\ settings.expiryMinutes > 0

\* the EXPIRED badge of the generation info renders
ExpiredBadgeShown ==
    /\ (otp # EmptyString \/ Len(batchCodes) > 0)
    /\ generatedAt # Null
    /\ isExpired

\* faulty variant of SaveSettingsEffect: it writes the initial settings object
SaveInitialSettings(set) == Some(JsonStringifySettings(DefaultSettings))

\* useEffect(() => localStorage.setItem('otp-settings', ...), [settings])
SaveSettingsEffect(set) == Some(JsonStringifySettings(set))

----------------------------------------------------------------------------
(* Initial state: the component constructed, its mount effects not yet run *)

\* the record kept in last: the operation, and for a generation who called
\* it, what it was called with and the history items it built
Op(name) ==
    [op |-> name, via |-> "user", items |-> << >>,
     length |-> 0, type |-> "", batchCount |-> 0]

InitialBudget == [ops |-> MaxOps, advances |-> MaxAdvances]

InitialComponentState ==
    /\ otp = EmptyString
    /\ codeLength = DefaultCodeLength
    /\ codeType = "numeric"
    /\ generatedAt = Null
    /\ history = << >>
    /\ settings = DefaultSettings
    /\ timeLeft = 0
    /\ isAutoRunning = FALSE
    /\ batchCodes = << >>
    /\ timer = NoTimer
    /\ mounted = FALSE

Init ==
    /\ clock = 0
    /\ InitialComponentState
    /\ \E stored \in StoredAtStartup :
        /\ lsSettings = stored[1]
        /\ lsHistory = stored[2]
    /\ intervals = {}
    /\ clipboard = Null
    /\ last = Op("init")
    /\ ticked = Null
    /\ budget = InitialBudget

----------------------------------------------------------------------------
(* Actions *)

\* every handler runs on the mounted component; the model allows MaxOps of them
UserOp ==
    /\ mounted
    /\ budget.ops > 0
    /\ budget' = [budget EXCEPT !.ops = @ - 1]

\* The mount effects, in order, and the re-render they cause.
Mount ==
    /\ ~mounted
    /\ mounted' = TRUE
    /\ settings' = IF lsSettings # Null
                   THEN JsonParseSettings(Get(lsSettings))
                   ELSE settings
    /\ history' = IF lsHistory # Null
                  THEN ParseSavedHistory(Get(lsHistory))
                  ELSE history
    /\ lsSettings' = LET firstRender == SaveSettingsEffect(settings)
                     IN  IF lsSettings # Null
                         THEN SaveSettingsEffect(settings')
                         ELSE firstRender
    /\ timer' = CountdownEffect(generatedAt, settings', history', codeLength,
                             codeType)
    /\ intervals' = IntervalsAfterEffect(timer', intervals)
    /\ last' = Op("mount")
    /\ UNCHANGED <<clipboard, clock, otp, codeLength, codeType, generatedAt,
                   timeLeft, isAutoRunning, batchCodes, lsHistory, ticked,
                   budget>>

\* generateOtp as built by the render whose state is cl
generateOtp(cl, via, seed) ==
    LET items == NewHistoryItems(clock, settings.expiryMinutes, cl.batchCount,
                                 cl.codeLength, cl.codeType, seed)
        newHistory == PrependAndCap(items, cl.history)
    IN  /\ IF cl.batchCount = 1
           THEN /\ otp' = items[1].code
                /\ batchCodes' = << >>
           ELSE /\ batchCodes' = [i \in 1..Len(items) |-> items[i].code]
                /\ otp' = EmptyString
        /\ history' = newHistory
        /\ lsHistory' = Some(JsonStringifyHistory(newHistory))
        /\ generatedAt' = Some(clock)
        /\ timer' = CountdownEffect(generatedAt', settings, history',
                                    codeLength, codeType)
        /\ last' = [op |-> "generate", via |-> via, items |-> items,
                    length |-> cl.codeLength, type |-> cl.codeType,
                    batchCount |-> cl.batchCount]
        /\ ticked' = Null

CurrentClosure ==
    [history |-> history, codeLength |-> codeLength, codeType |-> codeType,
     batchCount |-> settings.batchCount]

\* a click on Generate
Generate ==
    /\ UserOp
    /\ \E seed \in Seeds : generateOtp(CurrentClosure, "user", seed)
    /\ intervals' = IntervalsAfterEffect(timer', intervals)
    /\ UNCHANGED <<clipboard, clock, mounted, codeLength, codeType, settings,
                   timeLeft, isAutoRunning, lsSettings>>

\* the interval callback of the countdown effect, for a running interval t
\* (autoRefresh and isAutoRunning are dependencies of the effect: the values
\* the callback captured are the current ones)
Tick ==
    /\ mounted
    /\ \E t \in intervals :
        /\ clock >= t.due
        /\ LET remaining == Remaining(t.expiryTime, clock)
           IN  /\ timeLeft' = remaining
               /\ IF remaining = 0
                  THEN IF settings.autoRefresh /\ isAutoRunning
                       THEN /\ \E seed \in Seeds :
                                generateOtp(t.closure, "timer", seed)
                            /\ intervals' =
                                 IntervalsAfterEffect(timer',
                                     ClearInterval(t, intervals))
                       ELSE /\ intervals' = ClearInterval(t, intervals)
                            /\ timer' = IF t = timer THEN NoTimer ELSE timer
                            /\ last' = Op("tick")
                            /\ ticked' = Some(remaining)
                            /\ UNCHANGED <<otp, batchCodes, history,
                                           lsHistory, generatedAt>>
                  ELSE LET again == [t EXCEPT !.due = clock + IntervalMs]
                       IN  /\ intervals' = (intervals \ {t}) \cup {again}
                           /\ timer' = IF t = timer THEN again ELSE timer
                           /\ last' = Op("tick")
                           /\ ticked' = Some(remaining)
                           /\ UNCHANGED <<otp, batchCodes, history,
                                          lsHistory, generatedAt>>
    /\ UNCHANGED <<clipboard, clock, mounted, codeLength, codeType, settings,
                   isAutoRunning, lsSettings, budget>>

\* time passes
AdvanceClock ==
    /\ mounted
    /\ budget.advances > 0
    /\ budget' = [budget EXCEPT !.advances = @ - 1]
    /\ \E d \in ClockSteps : clock' = clock + d
    /\ UNCHANGED <<intervals, clipboard, mounted, otp, codeLength, codeType,
                   generatedAt, history, settings, timeLeft, isAutoRunning,
                   batchCodes, lsSettings, lsHistory, timer, last, ticked>>

\* what a handler that leaves generatedAt alone does to the interval: the
\* countdown effect runs again only when one of its dependencies changed
TimerAfter(set, auto, hist, len, type) ==
    IF DepsChanged(set, auto)
    THEN CountdownEffect(generatedAt, set, hist, len, type)
    ELSE timer

\* setSettings(prev => ...): the new object, the save effect, the countdown
\* effect
SetSettings(set) ==
    /\ settings' = set
    /\ lsSettings' = SaveSettingsEffect(set)
    /\ timer' = TimerAfter(set, isAutoRunning, history, codeLength, codeType)
    /\ intervals' = IF DepsChanged(set, isAutoRunning)
                     THEN IntervalsAfterEffect(timer', intervals)
                     ELSE intervals


\* the length select: onValueChange={(value) => setCodeLength(parseInt(value))}
SetCodeLength ==
    /\ UserOp
    /\ \E value \in CodeLengths \ {codeLength} : codeLength' = value
    /\ last' = Op("setCodeLength")
    /\ UNCHANGED <<intervals, clipboard, clock, mounted, otp, codeType,
                   generatedAt, history, settings, timeLeft, isAutoRunning,
                   batchCodes, lsSettings, lsHistory, timer, ticked>>

\* the type select: onValueChange={(value) => setCodeType(value)}
SetCodeType ==
    /\ UserOp
    /\ \E value \in CodeTypes \ {codeType} : codeType' = value
    /\ last' = Op("setCodeType")
    /\ UNCHANGED <<intervals, clipboard, clock, mounted, otp, codeLength,
                   generatedAt, history, settings, timeLeft, isAutoRunning,
                   batchCodes, lsSettings, lsHistory, timer, ticked>>

\* the expiry field: expiryMinutes: parseInt(e.target.value) || 5
ChangeExpiryMinutes ==
    /\ UserOp
    /\ \E value \in ExpiryInputs :
        SetSettings([settings EXCEPT
                        !.expiryMinutes = ParseIntOr(value, ExpiryFallback)])
    /\ last' = Op("changeExpiryMinutes")
    /\ UNCHANGED <<clipboard, clock, mounted, otp, codeLength, codeType,
                   generatedAt, history, timeLeft, isAutoRunning, batchCodes,
                   lsHistory, ticked>>

\* the batch field: batchCount: parseInt(e.target.value) || 1
ChangeBatchCount ==
    /\ UserOp
    /\ \E value \in BatchInputs :
        SetSettings([settings EXCEPT
                        !.batchCount = ParseIntOr(value, BatchFallback)])
    /\ last' = Op("changeBatchCount")
    /\ UNCHANGED <<clipboard, clock, mounted, otp, codeLength, codeType,
                   generatedAt, history, timeLeft, isAutoRunning, batchCodes,
                   lsHistory, ticked>>

\* the sound switch: onCheckedChange={(checked) => setSettings(...)}
ChangeSoundEnabled ==
    /\ UserOp
    /\ SetSettings([settings EXCEPT !.soundEnabled = ~@])
    /\ last' = Op("changeSoundEnabled")
    /\ UNCHANGED <<clipboard, clock, mounted, otp, codeLength, codeType,
                   generatedAt, history, timeLeft, isAutoRunning, batchCodes,
                   lsHistory, ticked>>

\* the Auto button
toggleAutoRefresh ==
    /\ UserOp
    /\ isAutoRunning' = ~isAutoRunning
    /\ settings' = [settings EXCEPT !.autoRefresh = ~@]
    /\ lsSettings' = SaveSettingsEffect(settings')
    /\ timer' = TimerAfter(settings', isAutoRunning', history, codeLength,
                           codeType)
    /\ intervals' = IF DepsChanged(settings', isAutoRunning')
                     THEN IntervalsAfterEffect(timer', intervals)
                     ELSE intervals
    /\ last' = Op("toggleAuto")
    /\ UNCHANGED <<clipboard, clock, mounted, otp, codeLength, codeType,
                   generatedAt, history, timeLeft, batchCodes, lsHistory,
                   ticked>>

\* faulty variant of clearHistory: localStorage.removeItem forgotten
clearHistoryKeepsSnapshot ==
    /\ UserOp
    /\ Len(history) > 0
    /\ history' = << >>
    /\ last' = Op("clearHistory")
    /\ UNCHANGED <<intervals, clipboard, clock, mounted, otp, codeLength,
                   codeType, generatedAt, settings, timeLeft, isAutoRunning,
                   batchCodes, lsSettings, lsHistory, timer, ticked>>

\* the Clear All button, rendered while history.length > 0
clearHistory ==
    /\ UserOp
    /\ Len(history) > 0
    /\ history' = << >>
    /\ lsHistory' = Null
    /\ last' = Op("clearHistory")
    /\ UNCHANGED <<intervals, clipboard, clock, mounted, otp, codeLength,
                   codeType, generatedAt, settings, timeLeft, isAutoRunning,
                   batchCodes, lsSettings, timer, ticked>>

\* Array.prototype.join('\n') on an array of strings
RECURSIVE JoinLines(_)
JoinLines(codes) ==
    IF Len(codes) = 0 THEN EmptyString
    ELSE IF Len(codes) = 1 THEN codes[1]
    ELSE codes[1] \o <<"\n">> \o JoinLines(Tail(codes))

\* faulty variant of TextToCopy: the argument is ignored
TextToCopyOfActiveCode(code) ==
    IF Len(batchCodes) > 0 THEN JoinLines(batchCodes) ELSE otp

\* const textToCopy = code || (batchCodes.length > 0 ? batchCodes.join('\n') : otp)
\* (an absent argument and an empty string are both falsy)
TextToCopy(code) ==
    IF code # Null /\ Get(code) # EmptyString
    THEN Get(code)
    ELSE IF Len(batchCodes) > 0 THEN JoinLines(batchCodes) ELSE otp

\* the buttons that call copyToClipboard, with the argument each passes: the
\* Copy button (enabled while a code is shown), the button of a row of the
\* batch, the button of a row of the history dialog (first and last rows)
CopyRows(n) == IF n = 0 THEN {} ELSE {1, n}
CopyArguments ==
    (IF otp # EmptyString \/ Len(batchCodes) > 0 THEN {Null} ELSE {})
    \cup {Some(batchCodes[i]) : i \in CopyRows(Len(batchCodes))}
    \cup {Some(history[i].code) : i \in CopyRows(Len(history))}

\* copyToClipboard(code?): writeText is granted or denied by the platform
copyToClipboard ==
    /\ UserOp
    /\ \E code \in CopyArguments, granted \in BOOLEAN :
        LET textToCopy == TextToCopy(code)
        IN  IF textToCopy = EmptyString
            THEN /\ clipboard' = clipboard
                 /\ last' = [op |-> "copy", code |-> code, text |-> textToCopy,
                             writes |-> 0, toasts |-> << >>]
            ELSE /\ clipboard' = IF granted THEN Some(textToCopy) ELSE clipboard
                 /\ last' = [op |-> "copy", code |-> code, text |-> textToCopy,
                             writes |-> 1,
                             toasts |-> IF granted THEN <<"Copied!">>
                                        ELSE <<"Copy failed">>]
    /\ UNCHANGED <<intervals, clock, mounted, otp, codeLength, codeType,
                   generatedAt, history, settings, timeLeft, isAutoRunning,
                   batchCodes, lsSettings, lsHistory, timer, ticked>>

\* Date.prototype.toLocaleString: date and time of day to the second
ToLocaleString(ms) == [local |-> ms \div 1000]

\* exportCodes, from the Export button (enabled while a code is shown): one
\* block of text per code shown
exportCodes ==
    /\ UserOp
    /\ otp # EmptyString \/ Len(batchCodes) > 0
    /\ LET exportData == IF Len(batchCodes) > 0 THEN batchCodes
                         ELSE IF otp # EmptyString THEN <<otp>> ELSE << >>
       IN  /\ Len(exportData) # 0
           /\ last' = [op |-> "export",
                       content |->
                         [index \in 1..Len(exportData) |->
                            [otp |-> index,
                             code |-> exportData[index],
                             generated |-> ToLocaleString(Get(generatedAt)),
                             expires |-> ToLocaleString(Get(generatedAt)
                                 + settings.expiryMinutes * 60 * 1000)]]]
    /\ UNCHANGED <<intervals, clipboard, clock, mounted, otp, codeLength,
                   codeType, generatedAt, history, settings, timeLeft,
                   isAutoRunning, batchCodes, lsSettings, lsHistory, timer,
                   ticked>>

\* the page is reloaded: the component is constructed anew (the effect's
\* cleanup clears the interval); localStorage stays
Reload ==
    /\ UserOp
    /\ otp' = EmptyString
    /\ codeLength' = DefaultCodeLength
    /\ codeType' = "numeric"
    /\ generatedAt' = Null
    /\ history' = << >>
    /\ settings' = DefaultSettings
    /\ timeLeft' = 0
    /\ isAutoRunning' = FALSE
    /\ batchCodes' = << >>
    /\ timer' = NoTimer
    /\ intervals' = EffectCleanup(timer, intervals)
    /\ mounted' = FALSE
    /\ ticked' = Null
    /\ last' = Op("reload")
    /\ UNCHANGED <<clipboard, clock, lsSettings, lsHistory>>

Next ==
    \/ Mount
    \/ Generate
    \/ Tick
    \/ AdvanceClock
    \/ SetCodeLength
    \/ SetCodeType
    \/ ChangeExpiryMinutes
    \/ ChangeBatchCount
    \/ ChangeSoundEnabled
    \/ toggleAutoRefresh
    \/ clearHistory
    \/ copyToClipboard
    \/ exportCodes
    \/ Reload

Spec == Init /\ [][Next]_vars

----------------------------------------------------------------------------
(* Vocabulary of the claims *)

Digits == {"0", "1", "2", "3", "4", "5", "6", "7", "8", "9"}
UpperCaseLetters ==
    {"A", "B", "C", "D", "E", "F", "G", "H", "I", "J", "K", "L", "M",
     "N", "O", "P", "Q", "R", "S", "T", "U", "V", "W", "X", "Y", "Z"}
Alphabet(type) ==
    IF type = "numeric" THEN Digits ELSE Digits \cup UpperCaseLetters

Generated == last.op = "generate"
SinglePopulated == otp # EmptyString
BatchPopulated == Len(batchCodes) > 0
CodeDisplayed == SinglePopulated \/ BatchPopulated

\* the step is a call of generateOtp, from the button or from the interval
GenerateStep == last'.op = "generate" /\ clock' = clock
\* the step is a run of the interval callback
TickStep ==
    /\ clock' = clock
    /\ last'.op = "tick" \/ (last'.op = "generate" /\ last'.via = "timer")

NewestFirst(hist) ==
    \A i \in 1..Len(hist) : \A j \in i..Len(hist) :
        hist[i].generatedAt >= hist[j].generatedAt

----------------------------------------------------------------------------
(* C1 *)

\* C1: after every step history holds at most 20 entries, newest first, and
\* a generation that would take it past 20 keeps the first 20 of the new
\* entries followed by the old ones, so that what is dropped is the tail:
\* the oldest entries.
C1_HistoryCappedNewestFirst ==
    [][ /\ Len(history') <= 20
        /\ NewestFirst(history')
        /\ (GenerateStep /\ Len(history) + Len(last'.items) > 20)
              => /\ Len(history') = 20
                 /\ history' = SubSeq(last'.items \o history, 1, 20) ]_vars

\* a generation has pushed entries of the stored history out: the newest
\* stored entry is still there, the oldest is gone
C1_Witness ==
    /\ Generated
    /\ Len(history) = 20
    /\ Len(last.items) > 0
    /\ \E i \in 1..Len(history) :
           history[i].id = StoredHistory(MaxStoredHistory)[1].id
    /\ \A i \in 1..Len(history) :
           history[i].id # StoredHistory(MaxStoredHistory)[MaxStoredHistory].id

----------------------------------------------------------------------------
(* C2 *)

WellFormedCode(code, length, type) ==
    /\ Len(code) = length
    /\ \A i \in 1..Len(code) : code[i] \in Alphabet(type)

\* C2: whatever length in {4,6,8} and type generateOtp is called with (for a
\* click on Generate: the ones selected), every code it produces has exactly
\* that many characters, all of that type's alphabet, the history entry made
\* for it records that length and type, and the codes shown are those codes.
C2_CodesWellFormed ==
    Generated =>
        /\ last.length \in {4, 6, 8}
        /\ last.type \in {"numeric", "alphanumeric"}
        /\ last.via = "user" => (last.length = codeLength /\ last.type = codeType)
        /\ \A i \in 1..Len(last.items) :
              /\ WellFormedCode(last.items[i].code, last.length, last.type)
              /\ last.items[i].length = last.length
              /\ last.items[i].type = last.type
        /\ SinglePopulated => otp = last.items[1].code
        /\ \A i \in 1..Len(batchCodes) : batchCodes[i] = last.items[i].code
        /\ \A i \in 1..Len(history) :
              WellFormedCode(history[i].code, history[i].length, history[i].type)

\* an 8-character alphanumeric code holding a letter has been generated
C2_Witness ==
    /\ Generated
    /\ last.length = 8
    /\ last.type = "alphanumeric"
    /\ SinglePopulated
    /\ \E i \in 1..Len(otp) : otp[i] \in UpperCaseLetters
    /\ history[1].code = otp

----------------------------------------------------------------------------
(* C8 *)

\* C8: every entry a generation creates has generatedAt = the time of the
\* call and expiresAt = generatedAt + expiryMinutes*60000 for the
\* expiryMinutes setting of that moment, the entries of one batch sharing
\* both; and they are the entries the history then starts with.
C8_ExpiresAtFromSetting ==
    Generated =>
        /\ \A i \in 1..Len(last.items) :
              /\ last.items[i].generatedAt = Get(generatedAt)
              /\ last.items[i].expiresAt =
                    last.items[i].generatedAt + settings.expiryMinutes * 60000
              /\ last.items[i].generatedAt = last.items[1].generatedAt
              /\ last.items[i].expiresAt = last.items[1].expiresAt
        /\ \A i \in 1..Min(Len(last.items), 20) : history[i] = last.items[i]

\* a batch has been generated under a changed expiry setting
C8_Witness ==
    /\ Generated
    /\ Len(last.items) >= 2
    /\ settings.expiryMinutes = 1
    /\ history[2].expiresAt = Get(generatedAt) + 60000

----------------------------------------------------------------------------
(* C3 *)

\* the deadline of the active code under the expiry setting in force
Deadline == Get(generatedAt) + settings.expiryMinutes * 60000

\* C3: a run of the interval callback for a code with expiryMinutes > 0 sets
\* the remaining time to max(0, generatedAt + expiryMinutes*60000 - now):
\* the full duration at now = generatedAt, 0 and Expired from the deadline
\* on; it is never negative and never more than what the previous run of
\* the callback for the same code computed.
C3_CountdownNeverIncreases ==
    [][ (TickStep /\ generatedAt # Null /\ settings.expiryMinutes > 0) =>
          /\ timeLeft' = Max(0, Deadline - clock)
          /\ clock = Get(generatedAt) =>
                timeLeft' = settings.expiryMinutes * 60000
          /\ clock >= Deadline => (timeLeft' = 0 /\ isExpired')
          /\ timeLeft' >= 0
          /\ ticked # Null => timeLeft' <= Get(ticked) ]_vars

----------------------------------------------------------------------------
(* C4 *)

\* C4: while expiryMinutes is 0 the code is never Expired, neither marked
\* (isExpired) nor shown with the EXPIRED badge, and no generation comes
\* from the interval.
C4_NoExpiryWhenDisabled ==
    settings.expiryMinutes = 0 =>
        /\ ~isExpired
        /\ ~ExpiredBadgeShown
        /\ ~(Generated /\ last.via = "timer")

----------------------------------------------------------------------------
(* C5 *)

\* C5: right after any generation with expiryMinutes > 0 the code is Active,
\* its countdown at the full duration, and not marked Expired; and a code is
\* marked Expired only once its own deadline has passed.
C5_GenerateLeadsToActive ==
    settings.expiryMinutes > 0 =>
        /\ Generated => (~isExpired /\ timeLeft = settings.expiryMinutes * 60000)
        /\ isExpired => clock >= Deadline

----------------------------------------------------------------------------
(* C6 *)

AutoOn == settings.autoRefresh /\ isAutoRunning

\* the callback is about to run and will find the countdown at 0
CountdownReachesZero ==
    /\ timer.live
    /\ clock >= timer.due
    /\ clock >= timer.expiryTime

\* C6: when the callback finds the countdown at 0 and both flags are on, it
\* generates, and a new Active (not Expired) code is shown in place of the
\* old one; when a flag is off it generates nothing, the code stays shown
\* and Expired, and stays so until a click on Generate.
C6_AutoRefreshAtZero ==
    [][ /\ (TickStep /\ CountdownReachesZero /\ AutoOn) =>
              /\ last'.op = "generate" /\ last'.via = "timer"
              /\ generatedAt' = Some(clock)
              /\ CodeDisplayed'
              /\ ~isExpired'
        /\ (TickStep /\ CountdownReachesZero /\ ~AutoOn) =>
              /\ last'.op = "tick"
              /\ UNCHANGED <<otp, batchCodes, generatedAt, history>>
              /\ isExpired'
        /\ (/\ ticked = Some(0) /\ isExpired /\ CodeDisplayed /\ ~AutoOn
            /\ ~AutoOn'
            /\ ~(last'.op = "generate" /\ last'.via = "user" /\ clock' = clock)
            /\ last'.op # "reload") =>
              /\ isExpired'
              /\ UNCHANGED <<otp, batchCodes, generatedAt>> ]_vars

----------------------------------------------------------------------------
(* C7 *)

\* C7: when the Auto button has just turned auto mode on for a code with
\* expiryMinutes > 0 that a callback had already found expired, the next
\* callback generates.
C7_AutoOnWhileExpiredRegenerates ==
    [][ (/\ TickStep
         /\ last.op = "toggleAuto"
         /\ isAutoRunning
         /\ ticked = Some(0)
         /\ isExpired
         /\ settings.expiryMinutes > 0) =>
            (last'.op = "generate" /\ last'.via = "timer") ]_vars

----------------------------------------------------------------------------
(* C9 *)

\* C9: the single code and the batch are never both populated, and right
\* after a generation exactly one is: the single code when it was called
\* with batchCount = 1, else a batch of exactly batchCount codes; they are
\* the codes just generated.
C9_ExactlyOnePopulated ==
    /\ ~(SinglePopulated /\ BatchPopulated)
    /\ Generated =>
          IF last.batchCount = 1
          THEN SinglePopulated /\ ~BatchPopulated /\ otp = last.items[1].code
          ELSE /\ BatchPopulated /\ ~SinglePopulated
               /\ Len(batchCodes) = last.batchCount
               /\ \A i \in 1..Len(batchCodes) :
                     batchCodes[i] = last.items[i].code

----------------------------------------------------------------------------
(* C10 *)

\* C10: a generation called with batchCount = N in 2..10 shows N codes,
\* makes N entries for them in batch order, and the history becomes those
\* entries followed by the previous history, cut to min(20, previous + N).
C10_BatchPrependsN ==
    [][ (GenerateStep /\ last'.batchCount \in 2..10) =>
          /\ Len(batchCodes') = last'.batchCount
          /\ Len(last'.items) = last'.batchCount
          /\ \A i \in 1..Len(batchCodes') :
                batchCodes'[i] = last'.items[i].code
          /\ Len(history') = Min(20, Len(history) + last'.batchCount)
          /\ history' = SubSeq(last'.items \o history, 1, Len(history')) ]_vars

----------------------------------------------------------------------------
(* C11 *)

\* the step is a run of clearHistory
ClearStep == last'.op = "clearHistory" /\ clock' = clock

\* C11: clearHistory leaves the in-memory history empty and the persisted
\* snapshot absent, and changes nothing else: the single code, the batch,
\* generatedAt, the remaining time, the settings (in memory and persisted),
\* the auto-run flag, the selected length and type and the interval stay as
\* they were.
C11_ClearHistoryFrame ==
    [][ ClearStep =>
          /\ history' = << >>
          /\ lsHistory' = Null
          /\ UNCHANGED <<otp, batchCodes, generatedAt, timeLeft, settings,
                         isAutoRunning, codeLength, codeType, lsSettings,
                         timer>> ]_vars

\* the history has been cleared while a batch was displayed and its
\* countdown was running
C11_Witness ==
    /\ last.op = "clearHistory"
    /\ history = << >>
    /\ lsHistory = Null
    /\ BatchPopulated
    /\ generatedAt # Null
    /\ timer.live

----------------------------------------------------------------------------
(* C12 *)

\* the persisted settings record, read back, is the in-memory settings
PersistedSettingsMatch ==
    /\ lsSettings # Null
    /\ JsonParseSettings(Get(lsSettings)) = settings

\* the step is the startup of the component
MountStep == ~mounted /\ mounted'

\* C12: once the component has started, and after every settings change,
\* the persisted settings record equals the in-memory settings; and a startup
\* that finds a persisted record ends with the in-memory settings equal to
\* that record and the record as it was found (the save of the default
\* settings by the first render does not replace it).
C12_SettingsRoundTrip ==
    [][ /\ mounted' => PersistedSettingsMatch'
        /\ (MountStep /\ lsSettings # Null) =>
              /\ settings' = JsonParseSettings(Get(lsSettings))
              /\ lsSettings' = lsSettings ]_vars

\* settings changed in one session have been persisted, and a reload has
\* brought them back
C12_Witness ==
    /\ last.op = "mount"
    /\ settings # DefaultSettings
    /\ settings \notin StoredSettingsSamples
    /\ PersistedSettingsMatch

----------------------------------------------------------------------------
(* C13 *)

\* C13: once the component has started, whatever was loaded and whatever
\* has been typed into the settings fields, batchCount is a whole number in
\* 1..10 and expiryMinutes a whole number >= 0.
C13_SettingsInRange ==
    mounted =>
        /\ settings.batchCount \in 1..10
        /\ settings.expiryMinutes \in Nat

----------------------------------------------------------------------------
(* C14 *)

\* C14: in every state the entries of history have pairwise distinct ids,
\* whatever single and batch generations produced them, two generations
\* within the same millisecond included.
C14_DistinctIds ==
    \A i \in 1..Len(history) : \A j \in 1..Len(history) :
        i # j => history[i].id # history[j].id

----------------------------------------------------------------------------
(* C15 *)

\* the step is a run of copyToClipboard
CopyStep == last'.op = "copy" /\ clock' = clock

\* text is the codes, in order, each but the last followed by a newline
JoinedByNewlines(text, codes) ==
    LET n == Len(codes)
        width == Len(codes[1]) + 1
    IN  /\ \A k \in 1..n : Len(codes[k]) = width - 1
        /\ Len(text) = n * width - 1
        /\ \A k \in 1..n : \A c \in 1..(width - 1) :
               text[(k - 1) * width + c] = codes[k][c]
        /\ \A k \in 1..(n - 1) : text[k * width] = "\n"

\* C15: copy writes the code it was given when it was given one, else the
\* codes of the batch joined by newlines when a batch is shown, else the
\* single code, and writes nothing when there is nothing to copy; it calls
\* the clipboard at most once; a granted write puts that text on the
\* clipboard, a denied one leaves the clipboard as it was and is reported by
\* exactly one "Copy failed" notice; and no state of the session changes.
C15_CopySelectsTextAndReportsFailure ==
    [][ CopyStep =>
          /\ IF last'.code # Null
                THEN last'.text = Get(last'.code)
                ELSE IF BatchPopulated
                     THEN JoinedByNewlines(last'.text, batchCodes)
                     ELSE last'.text = otp
          /\ last'.writes = IF last'.text = EmptyString THEN 0 ELSE 1
          /\ IF last'.writes = 1 /\ last'.toasts # <<"Copy failed">>
                THEN clipboard' = Some(last'.text) /\ last'.toasts = <<"Copied!">>
                ELSE clipboard' = clipboard
          /\ UNCHANGED <<otp, batchCodes, generatedAt, history, lsHistory,
                         settings, lsSettings, timeLeft, isAutoRunning,
                         codeLength, codeType, timer>> ]_vars

\* the Copy button was used on a batch and the write was denied: the
\* clipboard still holds the single code copied from the history before
C15_Witness ==
    /\ last.op = "copy"
    /\ last.code = Null
    /\ BatchPopulated
    /\ Len(batchCodes) >= 2
    /\ last.toasts = <<"Copy failed">>
    /\ clipboard # Null
    /\ Get(clipboard) # last.text

----------------------------------------------------------------------------
(* C16 *)

Range(seq) == {seq[i] : i \in 1..Len(seq)}

\* the persisted history snapshot, read back
PersistedHistory ==
    IF lsHistory = Null THEN << >> ELSE ParseSavedHistory(Get(lsHistory))

\* C16: an entry that is neither in the history nor in its persisted
\* snapshot never comes back: every entry a step leaves in the history, in
\* memory or persisted, was in one of them before the step or has just been
\* generated by it. So once clearHistory has emptied both, every later
\* history holds only entries generated after the clear, also when the
\* interval callback is what generates next.
C16_NoResurrectedEntries ==
    [][ \A e \in Range(history') \cup Range(PersistedHistory') :
           \/ e \in Range(history) \cup Range(PersistedHistory)
           \/ GenerateStep /\ e \in Range(last'.items) ]_vars

----------------------------------------------------------------------------
(* C17 *)

\* C17: a generation made by the interval callback is called with the code
\* length, the code type and the batchCount selected at that moment, and so
\* builds codes of that length and type, as many as a click on Generate
\* would.
C17_TimerGenerationUsesCurrentSelection ==
    [][ (GenerateStep /\ last'.via = "timer") =>
          /\ last'.length = codeLength
          /\ last'.type = codeType
          /\ last'.batchCount = settings.batchCount
          /\ \A i \in 1..Len(last'.items) :
                /\ Len(last'.items[i].code) = codeLength
                /\ last'.items[i].type = codeType ]_vars

----------------------------------------------------------------------------
(* C18 *)

\* the history entries of the code (or batch) now shown
ActiveEntries ==
    {e \in Range(history) :
        /\ generatedAt # Null
        /\ e.generatedAt = Get(generatedAt)
        /\ e.code = otp \/ e.code \in Range(batchCodes)}

\* C18: in every state the deadline the live countdown counts to, and the
\* expiry time an export has just written for each code, are the expiresAt
\* recorded in the history entry of the code shown, also after expiryMinutes
\* was changed while the code was shown.
C18_DeadlineIsRecordedExpiresAt ==
    \A e \in ActiveEntries :
        /\ timer.live => timer.expiryTime = e.expiresAt
        /\ last.op = "export" =>
              \A i \in 1..Len(last.content) :
                  last.content[i].expires = ToLocaleString(e.expiresAt)

----------------------------------------------------------------------------
(* C19 *)

\* C19: after every step at most one interval is running, it is the one the
\* countdown effect installed last, and it counts to the deadline of the
\* current generatedAt under the current expiryMinutes (a generation, an
\* edit of expiryMinutes and a change of an auto flag each cancel the
\* interval that was running); so a callback that runs is the current
\* code's and sets the remaining time of that code; and after a generation
\* made by the callback no running interval has a deadline that has already
\* passed: one expiry gives at most one such generation.
C19_OneLiveTimerOfCurrentCode ==
    [][ /\ Cardinality(intervals') <= 1
        /\ \A t \in intervals' :
              /\ t = timer'
              /\ generatedAt' # Null
              /\ t.expiryTime =
                    Get(generatedAt') + settings'.expiryMinutes * 60000
        /\ TickStep =>
              /\ generatedAt # Null
              /\ timeLeft' = Max(0, Deadline - clock)
        /\ (GenerateStep /\ last'.via = "timer") =>
              \A t \in intervals' : t.expiryTime > clock' ]_vars

\* the callback has regenerated, and the only interval running is the new
\* code's; the code before it had replaced an earlier one
C19_Witness ==
    /\ Generated
    /\ last.via = "timer"
    /\ intervals = {timer}
    /\ timer.expiryTime > clock
    /\ Len(history) >= 3

----------------------------------------------------------------------------
(* C20 *)

\* C20: after every generation (single or batch, from the button or from
\* the interval callback) and after every clearHistory, and until the next
\* operation, the persisted history snapshot read back is the in-memory
\* history, entry by entry in the same order; after a clear it is absent.
C20_PersistedHistoryIsHistory ==
    /\ Generated =>
          /\ lsHistory # Null
          /\ Len(Get(lsHistory)) = Len(history)
          /\ \A i \in 1..Len(history) :
                ParseSavedHistory(Get(lsHistory))[i] = history[i]
    /\ last.op = "clearHistory" => (lsHistory = Null /\ history = << >>)

\* the callback has generated a batch on top of earlier entries and the
\* snapshot holds all of them
C20_Witness ==
    /\ Generated
    /\ last.via = "timer"
    /\ Len(last.items) >= 2
    /\ Len(history) > Len(last.items)
    /\ lsHistory # Null
    /\ ParseSavedHistory(Get(lsHistory)) = history

----------------------------------------------------------------------------
(* C21 *)

\* C21: once the component has started, whatever settings were loaded and
\* however often the Auto button was used, isAutoRunning equals
\* settings.autoRefresh; so a run of toggleAutoRefresh takes regeneration
\* by the interval from off (both flags false) to on (both true) or back.
C21_AutoFlagsAgree ==
    [][ /\ mounted' => (isAutoRunning' = settings'.autoRefresh)
        /\ (last'.op = "toggleAuto" /\ clock' = clock) =>
              /\ AutoOn' = ~AutoOn
              /\ isAutoRunning' = settings'.autoRefresh ]_vars

====
